---- MODULE Spec2Model ----
(***************************************************************************)
(* Model of the IFC viewer: the geometry ingestion / mesh consolidation    *)
(* pipeline of src/src/ifcLoader.ts and the model lifecycle (initial load, *)
(* drop handler, picking) of src/src/main.ts.                              *)
(*                                                                         *)
(* The Babylon.js scene is modelled by what the loader touches:            *)
(*   scene.meshes          a set of mesh records                           *)
(*   scene.materials       a sequence of material records (array order)    *)
(*   scene.transformNodes  a sequence of node records (array order)        *)
(* The web-ifc parser is modelled by its set of open model handles and the *)
(* content of the file it streams (fragments and relationship records).    *)
(***************************************************************************)
EXTENDS Integers, Sequences, FiniteSets, TLC

VARIABLES
  scene,                  \* the Babylon scene: meshes, materials, transformNodes, nextId
  ifcAPI,                 \* the parser: open model handles, next model id
  currentIfcMeshes,       \* main.ts:9
  currentModelID,         \* main.ts:10
  currentHighlightedMesh, \* main.ts:13
  loads,                  \* the loadAndRenderIfc calls that have not settled, in call order
  job,                    \* locals of the loadIfcGeometryAsMeshes call in progress
  handlersInstalled,      \* createScene has returned: pointer and drop handlers are set
  drops,                  \* number of files dropped so far
  last,                   \* the step just taken: its name, the dispose / close calls of its
                          \* teardown in call order, the error and model of a load it failed
  lim,                    \* the bounds in force
  probe                   \* a function of the loader applied on its own: inputs and results

vars == <<scene, ifcAPI, currentIfcMeshes, currentModelID, currentHighlightedMesh,
          loads, job, handlersInstalled, drops, last, lim, probe>>

-----------------------------------------------------------------------------
(* Bounds *)

\* fragments streamed by the one load of the pipeline specification
MaxFrags == 2
\* fragments streamed per load in the lifecycle specification
LifeFrags == 2
\* files dropped on the canvas in the lifecycle specification
MaxDrops == 2
\* fragments of the streams whose groupings are compared
MaxGroupFrags == 3
\* relationship records of the files whose storey map is built on its own
MaxRels == 3

\* element (express) ids a file may hold
ExpressIDs == {1, 2}
\* express ids of the IFCBUILDINGSTOREY entities, in GetLineIDsWithType order
Storeys == <<10, 20>>

\* null, for ids
Null == -1

-----------------------------------------------------------------------------
(* Colours: channels are rationals <<n, d>> in [0,1]; <<>> is "no colour". *)

NoColor == <<>>
Red == << <<1, 1>>, <<0, 1>>, <<0, 1>>, <<1, 1>> >>
\* black, fully transparent
Clear == << <<0, 1>>, <<0, 1>>, <<0, 1>>, <<0, 1>> >>
Colors == {NoColor, Red, Clear}

\* Math.floor(c * 255) for the channel c = n/d
Floor255(c) == (c[1] * 255) \div c[2]

\* the same sum with radix 255
ColorIdRadix255(color) ==
  IF color # NoColor
  THEN <<Floor255(color[4]),
         Floor255(color[1]) + Floor255(color[2]) * 255 + Floor255(color[3]) * 255 * 255>>
  ELSE <<0, 0>>

\* A colorId can reach 255 * 256^3 + ..., beyond TLC's 32-bit integers, so the number
\* hi * 2^24 + lo (0 <= lo < 2^24) is held as <<hi, lo>>; two such pairs are equal
\* exactly when the numbers are.
ColorId(color) ==
  IF color # NoColor
  THEN LET low == Floor255(color[1]) + Floor255(color[2]) * 256 + Floor255(color[3]) * 256 * 256
       IN <<Floor255(color[4]) + (low \div 16777216), low % 16777216>>
  ELSE <<0, 0>>

\* the four decimal digits of r < 10000
Pad4(r) ==
  ToString(r \div 1000) \o ToString((r \div 100) % 10) \o ToString((r \div 10) % 10) \o ToString(r % 10)

\* the decimal numeral of the colorId <<hi, lo>>, as `${colorId}` writes it:
\* hi * 16777216 + lo = (hi * 1677 + lo div 10^4) * 10^4 + hi * 7216 + lo mod 10^4
ColorIdString(colorId) ==
  LET tail == (colorId[1] * 7216) + (colorId[2] % 10000)
      q == (colorId[1] * 1677) + (colorId[2] \div 10000) + (tail \div 10000)
  IN IF q = 0 THEN ToString(tail % 10000) ELSE ToString(q) \o Pad4(tail % 10000)

-----------------------------------------------------------------------------
(* Names *)

\* `ifc-${expressID}-part-${i}`
PartName(expressID, i) == "ifc-" \o ToString(expressID) \o "-part-" \o ToString(i)
\* `ifc-${expressID}`
MeshName(expressID) == "ifc-" \o ToString(expressID)
\* `ifc-material-${colorId}`
MaterialName(colorId) == "ifc-material-" \o ColorIdString(colorId)
RootName == "ifc-root"

\* String.prototype.startsWith
StartsWith(s, prefix) == Len(s) >= Len(prefix) /\ SubSeq(s, 1, Len(prefix)) = prefix

IsIfcMaterial(material) == StartsWith(material.name, "ifc-material-")

-----------------------------------------------------------------------------
(* Sequence helpers *)

Range(s) == {s[i] : i \in 1..Len(s)}

RECURSIVE SeqsUpTo(_, _)
\* all sequences over S of length <= n
SeqsUpTo(S, n) == IF n = 0 THEN {<<>>} ELSE {<<>>} \cup {<<x>> \o t : x \in S, t \in SeqsUpTo(S, n - 1)}

\* Babylon removes an entry of scene.materials / scene.transformNodes by moving the
\* last entry into its slot and popping the array.
RemoveAt(s, i) ==
  IF i = Len(s) THEN SubSeq(s, 1, Len(s) - 1)
  ELSE SubSeq([s EXCEPT ![i] = s[Len(s)]], 1, Len(s) - 1)

\* the first of the positions hits, 0 when there is none
FirstIndex(hits) ==
  IF hits = {} THEN 0 ELSE CHOOSE i \in hits : \A j \in hits : i <= j

RECURSIVE SortedSeq(_)
\* the elements of a finite set of numbers, ascending
SortedSeq(S) ==
  IF S = {} THEN <<>>
  ELSE LET m == CHOOSE x \in S : \A y \in S : x <= y
       IN <<m>> \o SortedSeq(S \ {m})

-----------------------------------------------------------------------------
(* The Babylon scene, as far as the loader uses it *)

EmptyScene == [meshes |-> {}, materials |-> <<>>, transformNodes |-> <<>>, nextId |-> 1]

MeshById(sc, id) == CHOOSE m \in sc.meshes : m.id = id
\* the material a mesh's material field refers to
MaterialById(sc, id) == sc.materials[CHOOSE k \in 1..Len(sc.materials) : sc.materials[k].id = id]
MeshIds(sc) == {m.id : m \in sc.meshes}

\* new Mesh(name, scene); mesh.parent = rootNode; mesh.metadata = {expressID, modelID}
\* parts is the set of fragments whose triangles the mesh holds, each fragment being
\* [serial, expressID, colorId]: its position in the stream, the element it belongs to
\* and the colorId computed for it.
NewMesh(sc, name, expressID, modelID, parent, parts) ==
  [sc EXCEPT !.meshes = @ \cup {[id |-> sc.nextId, name |-> name, expressID |-> expressID,
                                 modelID |-> modelID, parent |-> parent, material |-> Null,
                                 parts |-> parts, renderOverlay |-> FALSE]},
             !.nextId = @ + 1]

\* the update of one mesh, by id
UpdateMesh(sc, id, fields) ==
  LET Changed(m) == [f \in DOMAIN m |-> IF f \in DOMAIN fields THEN fields[f] ELSE m[f]]
  IN [sc EXCEPT !.meshes = {IF m.id = id THEN Changed(m) ELSE m : m \in @}]

\* mesh.dispose() for a set of meshes: they leave scene.meshes
DisposeMeshes(sc, ids) == [sc EXCEPT !.meshes = {m \in @ : m.id \notin ids}]

\* new TransformNode("ifc-root", scene)
NewRootNode(sc, modelID) ==
  [sc EXCEPT !.transformNodes = Append(@, [id |-> sc.nextId, name |-> RootName, modelID |-> modelID]),
             !.nextId = @ + 1]

\* new StandardMaterial(`ifc-material-${colorId}`, scene) with the fields getMaterial sets
NewMaterial(sc, colorId, color, zOffset, modelID) ==
  [sc EXCEPT !.materials = Append(@, [id |-> sc.nextId, name |-> MaterialName(colorId),
                                      colorId |-> colorId,
                                      diffuse |-> IF color # NoColor THEN SubSeq(color, 1, 3)
                                                  ELSE << <<4, 5>>, <<4, 5>>, <<4, 5>> >>,
                                      alpha |-> IF color # NoColor THEN color[4] ELSE <<1, 1>>,
                                      zOffset |-> zOffset, modelID |-> modelID]),
             !.nextId = @ + 1]

\* material.dispose() of scene.materials[k]: the material leaves scene.materials and
\* every mesh that used it is left without material.
DisposeMaterialAt(sc, k) ==
  LET id == sc.materials[k].id
  IN [sc EXCEPT !.materials = RemoveAt(@, k),
                !.meshes = {IF m.material = id THEN [m EXCEPT !.material = Null] ELSE m : m \in @}]

\* scene.getTransformNodeByName("ifc-root"): index of the first node of that name, 0 for null
GetTransformNodeByName(sc, name) ==
  FirstIndex({i \in 1..Len(sc.transformNodes) : sc.transformNodes[i].name = name})

-----------------------------------------------------------------------------
(* Teardown: disposeIfcScene and cleanupIfcModel.  The state threaded through *)
(* is [scene, log]; log records each dispose / close call in call order.      *)

MaterialEvent(sc, k) ==
  [kind |-> "material", id |-> sc.materials[k].id,
   inUse |-> \E m \in sc.meshes : m.material = sc.materials[k].id]
Event(kind, id) == [kind |-> kind, id |-> id, inUse |-> FALSE]

RECURSIVE ForEachMaterial(_, _, _)
\* scene.materials.forEach(...) of disposeIfcScene: Array.prototype.forEach visits the
\* indices 0..len-1 of the length read at the start and skips an index that is
\* no longer in the array.
ForEachMaterial(st, k, len) ==
  IF k > len THEN st
  ELSE IF k > Len(st.scene.materials) THEN ForEachMaterial(st, k + 1, len)
  ELSE IF IsIfcMaterial(st.scene.materials[k])
       THEN ForEachMaterial([scene |-> DisposeMaterialAt(st.scene, k),
                             log |-> Append(st.log, MaterialEvent(st.scene, k))], k + 1, len)
       ELSE ForEachMaterial(st, k + 1, len)

\* a dispose that takes the node out of the scene and leaves its descendants
DisposeNodeOnly(st, k) ==
  [scene |-> [st.scene EXCEPT !.transformNodes = RemoveAt(@, k)],
   log |-> Append(st.log, Event("root", st.scene.transformNodes[k].id))]

\* rootNode.dispose(): the descendants are disposed, then the node leaves the scene
DisposeRootAt(st, k) ==
  LET node == st.scene.transformNodes[k]
      children == {m.id : m \in {x \in st.scene.meshes : x.parent = node.id}}
      kids == SortedSeq(children)
      sc1 == DisposeMeshes(st.scene, children)
  IN [scene |-> [sc1 EXCEPT !.transformNodes = RemoveAt(@, k)],
      log |-> st.log \o [i \in 1..Len(kids) |-> Event("mesh", kids[i])]
                     \o <<Event("root", node.id)>>]

disposeIfcScene(st) ==
  LET st1 == ForEachMaterial(st, 1, Len(st.scene.materials))
      k == GetTransformNodeByName(st1.scene, RootName)
  IN IF k # 0 THEN DisposeRootAt(st1, k) ELSE st1

\* ifcAPI.IsModelOpen / CloseModel
IsModelOpen(api, modelID) == modelID \in api.open

\* a cleanup that leaves the model open
cleanupIfcModelLeavingOpen(api, modelID) == api

\* the parser after cleanupIfcModel(ifcAPI, modelID)
cleanupIfcModel(api, modelID) ==
  IF IsModelOpen(api, modelID) THEN [api EXCEPT !.open = @ \ {modelID}] ELSE api

-----------------------------------------------------------------------------
(* The content of a file, as the parser hands it out *)

\* one placed geometry of a flat mesh: its colour, and what happens while it is processed:
\*   "ok"           it has vertices and indices and every call succeeds
\*   "empty"        its vertex or index buffer is empty
\*   "throwDecode"  GetVertexArray / GetIndexArray throws (before anything is created)
\*   "throwApply"   applyToMesh / bakeTransformIntoVertices throws (after new Mesh)
Outcomes == {"ok", "empty", "throwDecode", "throwApply"}
PlacedGeometries == [color : Colors, outcome : Outcomes]

\* an IFCRELAGGREGATES ("agg") or IFCRELCONTAINEDINSPATIALSTRUCTURE ("cont") record:
\* relating is the value of RelatingObject / RelatingStructure (Null: field missing),
\* related the values of RelatedObjects / RelatedElements (<<>>: missing or empty),
\* throws whether GetLine throws on the record
RelRecords == [kind : {"agg", "cont"}, relating : Range(Storeys), related : {<<e>> : e \in ExpressIDs},
               throws : {FALSE}]

-----------------------------------------------------------------------------
(* loadIfcGeometryAsMeshes, part 1: the StreamAllMeshes callback *)

EmptyJob ==
  [load |-> 0, modelID |-> Null, rootNode |-> Null, meshesWithColor |-> <<>>,
   originalMeshCount |-> 0, handles |-> <<>>, outcomes |-> <<>>, streamed |-> {},
   elementToStorey |-> <<>>, meshGroups |-> <<>>, finalMeshes |-> <<>>,
   mergedMeshCount |-> 0, materialCount |-> 0, branches |-> <<>>, nulls |-> {}]

\* the loop body with a fragment collected although applying its vertex data threw
ProcessGeometryCollectingFailed(st, expressID, i, pg) ==
  LET j == st.job
      part == [serial |-> Len(j.handles) + 1, expressID |-> expressID, colorId |-> ColorId(pg.color)]
      released == [j EXCEPT !.handles = Append(@, 1), !.outcomes = Append(@, pg.outcome)]
      counted == [released EXCEPT !.originalMeshCount = @ + 1]
      withMesh == NewMesh(st.scene, PartName(expressID, i), expressID, j.modelID, j.rootNode, {part})
  IN CASE pg.outcome \in {"empty", "throwDecode"} -> [scene |-> st.scene, job |-> released]
       [] OTHER ->
            [scene |-> withMesh,
             job |-> [counted EXCEPT !.meshesWithColor =
                        Append(@, [mesh |-> st.scene.nextId, colorId |-> ColorId(pg.color),
                                   color |-> pg.color, part |-> part])]]

\* the loop body without the geometry.delete() of the catch block
ProcessGeometryLeakingOnThrow(st, expressID, i, pg) ==
  LET j == st.job
      part == [serial |-> Len(j.handles) + 1, expressID |-> expressID, colorId |-> ColorId(pg.color)]
      released == [j EXCEPT !.handles = Append(@, 1), !.outcomes = Append(@, pg.outcome)]
      leaked == [j EXCEPT !.handles = Append(@, 0), !.outcomes = Append(@, pg.outcome)]
      counted == [released EXCEPT !.originalMeshCount = @ + 1]
      withMesh == NewMesh(st.scene, PartName(expressID, i), expressID, j.modelID, j.rootNode, {part})
  IN CASE pg.outcome = "empty" -> [scene |-> st.scene, job |-> released]
       [] pg.outcome = "throwDecode" -> [scene |-> st.scene, job |-> leaked]
       [] pg.outcome = "throwApply" ->
            [scene |-> withMesh, job |-> [leaked EXCEPT !.originalMeshCount = @ + 1]]
       [] OTHER ->
            [scene |-> withMesh,
             job |-> [counted EXCEPT !.meshesWithColor =
                        Append(@, [mesh |-> st.scene.nextId, colorId |-> ColorId(pg.color),
                                   color |-> pg.color, part |-> part])]]

\* the loop body with an empty fragment counted in stats.originalMeshCount
ProcessGeometryCountingEmpty(st, expressID, i, pg) ==
  LET j == st.job
      part == [serial |-> Len(j.handles) + 1, expressID |-> expressID, colorId |-> ColorId(pg.color)]
      released == [j EXCEPT !.handles = Append(@, 1), !.outcomes = Append(@, pg.outcome)]
      counted == [released EXCEPT !.originalMeshCount = @ + 1]
      withMesh == NewMesh(st.scene, PartName(expressID, i), expressID, j.modelID, j.rootNode, {part})
  IN CASE pg.outcome = "empty" -> [scene |-> st.scene, job |-> counted]
       [] pg.outcome = "throwDecode" -> [scene |-> st.scene, job |-> released]
       [] pg.outcome = "throwApply" -> [scene |-> withMesh, job |-> counted]
       [] OTHER ->
            [scene |-> withMesh,
             job |-> [counted EXCEPT !.meshesWithColor =
                        Append(@, [mesh |-> st.scene.nextId, colorId |-> ColorId(pg.color),
                                   color |-> pg.color, part |-> part])]]

\* the body of the for loop for placedGeometries.get(i), i counted from 0.
\* st is [scene, job]; a handle is the number of times geometry.delete() was called on
\* it, and outcomes notes what became of each fragment.
ProcessGeometry(st, expressID, i, pg) ==
  LET j == st.job
      part == [serial |-> Len(j.handles) + 1, expressID |-> expressID, colorId |-> ColorId(pg.color)]
      released == [j EXCEPT !.handles = Append(@, 1), !.outcomes = Append(@, pg.outcome)]
      counted == [released EXCEPT !.originalMeshCount = @ + 1]
      withMesh == NewMesh(st.scene, PartName(expressID, i), expressID, j.modelID, j.rootNode, {part})
  IN CASE pg.outcome \in {"empty", "throwDecode"} -> [scene |-> st.scene, job |-> released]
       [] pg.outcome = "throwApply" -> [scene |-> withMesh, job |-> counted]
       [] OTHER ->
            [scene |-> withMesh,
             job |-> [counted EXCEPT !.meshesWithColor =
                        Append(@, [mesh |-> st.scene.nextId, colorId |-> ColorId(pg.color),
                                   color |-> pg.color, part |-> part])]]

RECURSIVE ForEachGeometry(_, _, _, _)
\* for (let i = 0; i < placedGeometries.size(); i++), from the k-th geometry on
ForEachGeometry(st, expressID, geometries, k) ==
  IF k > Len(geometries) THEN st
  ELSE ForEachGeometry(ProcessGeometry(st, expressID, k - 1, geometries[k]), expressID, geometries, k + 1)

\* the callback of StreamAllMeshes for one flat mesh
StreamCallbackResult(st, flatMesh) ==
  LET st1 == ForEachGeometry(st, flatMesh.expressID, flatMesh.geometries, 1)
  IN [st1 EXCEPT !.job.streamed = @ \cup {flatMesh.expressID}]

-----------------------------------------------------------------------------
(* buildStoreyMap *)

\* elementToStorey.set(value, storeyID) for every entry of related
SetAll(map, related, storeyID) ==
  [e \in DOMAIN map \cup Range(related) |-> IF e \in Range(related) THEN storeyID ELSE map[e]]

RECURSIVE ForEachRel(_, _, _, _)
\* one of the two inner loops of buildStoreyMap, from the k-th record on;
\* the result is [map, thrown]
ForEachRel(map, rels, k, storeyID) ==
  IF k > Len(rels) THEN [map |-> map, thrown |-> FALSE]
  ELSE IF rels[k].throws THEN [map |-> map, thrown |-> TRUE]
  ELSE IF rels[k].relating # Null /\ rels[k].relating = storeyID
       THEN ForEachRel(SetAll(map, rels[k].related, storeyID), rels, k + 1, storeyID)
       ELSE ForEachRel(map, rels, k + 1, storeyID)

IsAgg(rel) == rel.kind = "agg"
IsCont(rel) == rel.kind = "cont"

\* the body of the loop over the storeys, with its try / catch
ForOneStorey(map, rels, storeyID) ==
  LET agg == ForEachRel(map, SelectSeq(rels, IsAgg), 1, storeyID)
  IN IF agg.thrown THEN agg.map
     ELSE ForEachRel(agg.map, SelectSeq(rels, IsCont), 1, storeyID).map

RECURSIVE ForEachStorey(_, _, _)
ForEachStorey(map, rels, i) ==
  IF i > Len(Storeys) THEN map
  ELSE ForEachStorey(ForOneStorey(map, rels, Storeys[i]), rels, i + 1)

\* the element-to-storey map of a file whose relationship records are rels
buildStoreyMap(rels) == ForEachStorey(<<>>, rels, 1)

\* canMergeMeshes counting the meshes that have a storey instead of the storeys
canMergeMeshesByMesh(meshes, elementToStorey) ==
  LET placed == {x \in meshes : x.expressID \in DOMAIN elementToStorey
                                /\ elementToStorey[x.expressID] # 0}
  IN Cardinality(placed) <= 1

\* canMergeMeshes: meshes is a set of mesh records
canMergeMeshes(meshes, elementToStorey) ==
  LET storeyIDs == {elementToStorey[m.expressID] :
                      m \in {x \in meshes : x.expressID \in DOMAIN elementToStorey
                                            /\ elementToStorey[x.expressID] # 0}}
  IN Cardinality(storeyIDs) <= 1

-----------------------------------------------------------------------------
(* loadIfcGeometryAsMeshes, part 2: grouping, materials, merging *)

\* a key that leaves out the element
groupKeyByColour(expressID, colorId) == ColorIdString(colorId)

\* a key that leaves out the colour
groupKeyByElement(expressID, colorId) == ToString(expressID)

\* `${expressID}-${colorId}`
groupKey(expressID, colorId) == ToString(expressID) \o "-" \o ColorIdString(colorId)

\* the key under which an item of meshesWithColor is grouped
KeyOf(sc, item) == groupKey(MeshById(sc, item.mesh).expressID, item.colorId)

RECURSIVE ForEachItem(_, _, _, _)
\* meshesWithColor.forEach(...) of step 1, from the k-th item on; a Map keeps its keys
\* in insertion order, so meshGroups is a sequence of [key, items]
ForEachItem(groups, sc, items, k) ==
  IF k > Len(items) THEN groups
  ELSE LET key == KeyOf(sc, items[k])
           at == FirstIndex({i \in 1..Len(groups) : groups[i].key = key})
       IN ForEachItem(IF at = 0 THEN Append(groups, [key |-> key, items |-> <<items[k]>>])
                      ELSE [groups EXCEPT ![at].items = Append(@, items[k])],
                      sc, items, k + 1)

\* a grouping that keeps the first item in a group of its own
GroupMeshesHeadApart(sc, meshesWithColor) ==
  IF meshesWithColor = <<>> THEN <<>>
  ELSE <<[key |-> "", items |-> <<meshesWithColor[1]>>]>>
         \o ForEachItem(<<>>, sc, Tail(meshesWithColor), 1)

\* step 1: meshGroups once every item is in its group
GroupMeshes(sc, meshesWithColor) == ForEachItem(<<>>, sc, meshesWithColor, 1)

\* a getMaterial that does not look into the cache
getMaterialUncached(ms, colorId, color) ==
  [ms |-> [ms EXCEPT !.scene = NewMaterial(@, colorId, color, ms.materialZOffset, ms.modelID),
                     !.materialZOffset = @ + 1,
                     !.materialCache = (colorId :> ms.scene.nextId) @@ @],
   material |-> ms.scene.nextId]

\* getMaterial: ms is the state of the merge step, the result is [ms, material]
getMaterial(ms, colorId, color) ==
  IF colorId \in DOMAIN ms.materialCache
  THEN [ms |-> ms, material |-> ms.materialCache[colorId]]
  ELSE [ms |-> [ms EXCEPT !.scene = NewMaterial(@, colorId, color, ms.materialZOffset, ms.modelID),
                          !.materialZOffset = @ + 1,
                          !.materialCache = (colorId :> ms.scene.nextId) @@ @],
        material |-> ms.scene.nextId]

\* a fallback that emits the first mesh of the group only
KeepFirstMeshOnly(ms, ids, k, expressID, material) ==
  [ms EXCEPT !.scene = UpdateMesh(@, ids[1], [name |-> MeshName(expressID), material |-> material]),
             !.finalMeshes = Append(@, ids[1])]

RECURSIVE KeepMeshes(_, _, _, _, _)
\* meshes.forEach(mesh => { name, material, finalMeshes.push }) of the two fallback
\* branches, from the k-th mesh on
KeepMeshes(ms, ids, k, expressID, material) ==
  IF k > Len(ids) THEN ms
  ELSE LET Renamed == [name |-> MeshName(expressID), material |-> material]
       IN KeepMeshes([ms EXCEPT !.scene = UpdateMesh(@, ids[k], Renamed),
                                !.finalMeshes = Append(@, ids[k])],
                     ids, k + 1, expressID, material)

\* a merge whose result is left without metadata
MergedIntoWithoutMetadata(ms, ids, expressID, material) ==
  LET parts == UNION {MeshById(ms.scene, id).parts : id \in Range(ids)}
      sc1 == NewMesh(DisposeMeshes(ms.scene, Range(ids)), MeshName(expressID), Null, Null,
                     ms.rootNode, parts)
  IN [ms EXCEPT !.scene = UpdateMesh(sc1, ms.scene.nextId, [material |-> material]),
                !.finalMeshes = Append(@, ms.scene.nextId),
                !.mergedCount = @ + 1]

\* a merge whose result holds the triangles of the first mesh only
MergedIntoFirstOnly(ms, ids, expressID, material) ==
  LET sc1 == NewMesh(DisposeMeshes(ms.scene, Range(ids)), MeshName(expressID), expressID,
                     ms.modelID, ms.rootNode, MeshById(ms.scene, ids[1]).parts)
  IN [ms EXCEPT !.scene = UpdateMesh(sc1, ms.scene.nextId, [material |-> material]),
                !.finalMeshes = Append(@, ms.scene.nextId),
                !.mergedCount = @ + 1]

\* Mesh.MergeMeshes(meshes, disposeSource = true, ...) followed by lines 455-467
MergedInto(ms, ids, expressID, material) ==
  LET parts == UNION {MeshById(ms.scene, id).parts : id \in Range(ids)}
      sc1 == NewMesh(DisposeMeshes(ms.scene, Range(ids)), MeshName(expressID), expressID,
                     ms.modelID, ms.rootNode, parts)
      WithMaterial == [material |-> material]
  IN [ms EXCEPT !.scene = UpdateMesh(sc1, ms.scene.nextId, WithMaterial),
                !.finalMeshes = Append(@, ms.scene.nextId),
                !.mergedCount = @ + 1]

\* the body of meshGroups.forEach; nulls holds the keys of the groups for which
\* Mesh.MergeMeshes returns null; branches notes the branch taken for each group
MergeGroup(ms, group, nulls) ==
  LET ids == [i \in 1..Len(group.items) |-> group.items[i].mesh]
      expressID == MeshById(ms.scene, ids[1]).expressID
      got == getMaterial(ms, group.items[1].colorId, group.items[1].color)
      canMerge == canMergeMeshes({MeshById(ms.scene, id) : id \in Range(ids)}, ms.elementToStorey)
      Branch(name) == [got.ms EXCEPT !.branches = Append(@, name)]
  IN IF Len(ids) = 1 THEN KeepMeshes(Branch("single"), ids, 1, expressID, got.material)
     ELSE IF canMerge
          THEN IF group.key \notin nulls
               THEN MergedInto(Branch("merged"), ids, expressID, got.material)
               ELSE [KeepMeshes(Branch("mergeFailed"), ids, 1, expressID, got.material)
                       EXCEPT !.skippedCount = @ + 1]
          ELSE [KeepMeshes(Branch("cannotMerge"), ids, 1, expressID, got.material)
                  EXCEPT !.skippedCount = @ + 1]

RECURSIVE ForEachGroup(_, _, _, _)
ForEachGroup(ms, groups, k, nulls) ==
  IF k > Len(groups) THEN ms
  ELSE ForEachGroup(MergeGroup(ms, groups[k], nulls), groups, k + 1, nulls)

\* the consolidation with stats.mergedMeshCount set to the number of merged groups
ConsolidatedCountingMerges(st, rels, nulls) ==
  LET elementToStorey == buildStoreyMap(rels)
      meshGroups == GroupMeshes(st.scene, st.job.meshesWithColor)
      ms0 == [scene |-> st.scene, modelID |-> st.job.modelID, rootNode |-> st.job.rootNode,
              elementToStorey |-> elementToStorey, materialCache |-> <<>>, materialZOffset |-> 0,
              finalMeshes |-> <<>>, mergedCount |-> 0, skippedCount |-> 0, branches |-> <<>>]
      ms == ForEachGroup(ms0, meshGroups, 1, nulls)
  IN [scene |-> ms.scene,
      job |-> [st.job EXCEPT !.elementToStorey = elementToStorey,
                             !.meshGroups = meshGroups,
                             !.finalMeshes = ms.finalMeshes,
                             !.mergedMeshCount = ms.mergedCount,
                             !.materialCount = Cardinality(DOMAIN ms.materialCache),
                             !.branches = ms.branches,
                             !.nulls = nulls]]

\* lines 363-530 of loadIfcGeometryAsMeshes, after the stream has completed:
\* st is [scene, job], rels the relationship records of the file; the result is [scene, job]
Consolidated(st, rels, nulls) ==
  LET elementToStorey == buildStoreyMap(rels)
      meshGroups == GroupMeshes(st.scene, st.job.meshesWithColor)
      ms0 == [scene |-> st.scene, modelID |-> st.job.modelID, rootNode |-> st.job.rootNode,
              elementToStorey |-> elementToStorey, materialCache |-> <<>>, materialZOffset |-> 0,
              finalMeshes |-> <<>>, mergedCount |-> 0, skippedCount |-> 0, branches |-> <<>>]
      ms == ForEachGroup(ms0, meshGroups, 1, nulls)
  IN [scene |-> ms.scene,
      job |-> [st.job EXCEPT !.elementToStorey = elementToStorey,
                             !.meshGroups = meshGroups,
                             !.finalMeshes = ms.finalMeshes,
                             !.mergedMeshCount = Len(ms.finalMeshes),
                             !.materialCount = Cardinality(DOMAIN ms.materialCache),
                             !.branches = ms.branches,
                             !.nulls = nulls]]

-----------------------------------------------------------------------------
(* State after construction: main.ts has called createScene, whose            *)
(* loadAndRenderIfc(ifcAPI, "/test.ifc", scene) awaits the fetch; the drop    *)
(* and pointer handlers are installed once that load has settled.             *)

\* prior is the model that was resident when the load was requested
NewLoad(initial, prior) ==
  [pc |-> "fetch", initial |-> initial, modelID |-> Null, meshes |-> <<>>, prior |-> prior]

Step(name) == [step |-> name, log |-> <<>>, error |-> "", modelID |-> Null, prior |-> Null]

InitState ==
  /\ scene = EmptyScene
  /\ ifcAPI = [open |-> {}, nextModelID |-> 0]
  /\ currentIfcMeshes = <<>>
  /\ currentModelID = Null
  /\ currentHighlightedMesh = Null
  /\ loads = <<NewLoad(TRUE, Null)>>
  /\ job = EmptyJob
  /\ handlersInstalled = FALSE
  /\ drops = 0
  /\ last = Step("createScene")

\* the lifecycle: the initial load and MaxDrops drops of small files
Init ==
  /\ InitState
  /\ probe = <<>>
  /\ lim = [frags |-> LifeFrags, elems |-> {1}, colors |-> {NoColor, Red}, rels |-> 0,
            drops |-> MaxDrops]

\* the pipeline: the initial load alone, of a larger file
InitLoad ==
  /\ InitState
  /\ probe = <<>>
  /\ lim = [frags |-> MaxFrags, elems |-> ExpressIDs, colors |-> Colors,
            rels |-> Cardinality(ExpressIDs), drops |-> 0]

Loads == 1..Len(loads)
\* no load ever holds the thread: its steps are separate tasks
RunningNone == {}

\* the loads between their OpenModel and the assignment of their result; the
\* continuations of one load are microtasks, so no event handler runs in between
Running == {l \in Loads : loads[l].pc \in {"opened", "streaming", "returned"}}

\* loads without its l-th entry
Settled(l) == SubSeq(loads, 1, l - 1) \o SubSeq(loads, l + 1, Len(loads))

\* a load has thrown: loadAndRenderIfc logs and rethrows, the caller logs (and alerts)
Rejected(l, error) ==
  /\ loads' = Settled(l)
  /\ handlersInstalled' = (handlersInstalled \/ loads[l].initial)
  /\ last' = [Step("rejected") EXCEPT !.error = error, !.modelID = loads[l].modelID,
                                      !.prior = loads[l].prior]

-----------------------------------------------------------------------------
(* loadAndRenderIfc, step by step *)

\* loadIfcFile: fetch rejects, the response is not ok, or arrayBuffer() rejects
SourceFetchError(l) ==
  /\ loads[l].pc = "fetch" /\ Running = {}
  /\ Rejected(l, "SourceFetchError")
  /\ UNCHANGED <<scene, ifcAPI, currentIfcMeshes, currentModelID, currentHighlightedMesh,
                 job, drops, lim, probe>>

\* loadIfcFile: OpenModel returns -1
ParseOpenError(l) ==
  /\ loads[l].pc = "fetch" /\ Running = {}
  /\ Rejected(l, "ParseOpenError")
  /\ UNCHANGED <<scene, ifcAPI, currentIfcMeshes, currentModelID, currentHighlightedMesh,
                 job, drops, lim, probe>>

\* loadIfcFile: OpenModel returns a model id
OpenModel(l) ==
  /\ loads[l].pc = "fetch" /\ Running = {}
  /\ ifcAPI' = [open |-> ifcAPI.open \cup {ifcAPI.nextModelID}, nextModelID |-> ifcAPI.nextModelID + 1]
  /\ loads' = [loads EXCEPT ![l].pc = "opened", ![l].modelID = ifcAPI.nextModelID]
  /\ last' = Step("OpenModel")
  /\ UNCHANGED <<scene, currentIfcMeshes, currentModelID, currentHighlightedMesh,
                 job, handlersInstalled, drops, lim, probe>>

\* loadIfcGeometryAsMeshes, lines 218-238: the root node and the empty locals
BeginGeometry(l) ==
  /\ loads[l].pc = "opened"
  /\ scene' = NewRootNode(scene, loads[l].modelID)
  /\ job' = [EmptyJob EXCEPT !.load = l, !.modelID = loads[l].modelID, !.rootNode = scene.nextId]
  /\ loads' = [loads EXCEPT ![l].pc = "streaming"]
  /\ last' = Step("BeginGeometry")
  /\ UNCHANGED <<ifcAPI, currentIfcMeshes, currentModelID, currentHighlightedMesh,
                 handlersInstalled, drops, lim, probe>>

\* the StreamAllMeshes callback, for the flat mesh of an element not yet streamed
StreamCallback(l) ==
  /\ loads[l].pc = "streaming"
  /\ \E expressID \in lim.elems \ job.streamed :
       \E geometries \in SeqsUpTo({g \in PlacedGeometries : g.color \in lim.colors},
                                  lim.frags - Len(job.handles)) \ {<<>>} :
         LET st == StreamCallbackResult([scene |-> scene, job |-> job],
                                        [expressID |-> expressID, geometries |-> geometries])
         IN scene' = st.scene /\ job' = st.job
  /\ last' = Step("StreamCallback")
  /\ UNCHANGED <<ifcAPI, currentIfcMeshes, currentModelID, currentHighlightedMesh,
                 loads, handlersInstalled, drops, lim, probe>>

\* StreamAllMeshes, or GetGeometry outside the try block, throws
StreamThrows(l) ==
  /\ loads[l].pc = "streaming"
  /\ Rejected(l, "StreamError")
  /\ job' = EmptyJob
  /\ UNCHANGED <<scene, ifcAPI, currentIfcMeshes, currentModelID, currentHighlightedMesh,
                 drops, lim, probe>>

\* the keys of the groups Mesh.MergeMeshes is called for, if they may be merged
MultiKeys(sc, meshesWithColor) ==
  LET groups == GroupMeshes(sc, meshesWithColor)
  IN {groups[i].key : i \in {k \in 1..Len(groups) : Len(groups[k].items) > 1}}

\* the stream is complete: lines 363-530, and loadAndRenderIfc returns
Consolidate(l) ==
  /\ loads[l].pc = "streaming"
  /\ \E rels \in SeqsUpTo({r \in RelRecords : Range(r.related) \subseteq lim.elems}, lim.rels) :
       \E nulls \in SUBSET MultiKeys(scene, job.meshesWithColor) :
         LET st == Consolidated([scene |-> scene, job |-> job], rels, nulls)
         IN /\ scene' = st.scene
            /\ job' = st.job
            /\ loads' = [loads EXCEPT ![l].pc = "returned", ![l].meshes = st.job.finalMeshes]
  /\ last' = Step("Consolidate")
  /\ UNCHANGED <<ifcAPI, currentIfcMeshes, currentModelID, currentHighlightedMesh,
                 handlersInstalled, drops, lim, probe>>

\* main.ts:282-283 and 377-378: the caller stores the result
StoreResult(l) ==
  /\ loads[l].pc = "returned"
  /\ currentIfcMeshes' = loads[l].meshes
  /\ currentModelID' = loads[l].modelID
  /\ loads' = Settled(l)
  /\ handlersInstalled' = (handlersInstalled \/ loads[l].initial)
  /\ job' = EmptyJob
  /\ last' = Step("StoreResult")
  /\ UNCHANGED <<scene, ifcAPI, currentHighlightedMesh, drops, lim, probe>>

-----------------------------------------------------------------------------
(* main.ts: the drop handler and the pointer handler *)

\* hideUpperTextAndClearHighlight: the result is [scene, highlighted]
hideUpperTextAndClearHighlight(sc, highlighted) ==
  LET Cleared == [renderOverlay |-> FALSE]
  IN IF highlighted # Null
     THEN [scene |-> UpdateMesh(sc, highlighted, Cleared), highlighted |-> Null]
     ELSE [scene |-> sc, highlighted |-> highlighted]

\* main.ts:356-370, the teardown block: the result is [scene, log, api, meshes, modelID]
Teardown(sc, api, meshes, modelID) ==
  IF Len(meshes) > 0 \/ modelID # Null
  THEN LET st == disposeIfcScene([scene |-> sc, log |-> <<>>])
           closes == modelID # Null /\ IsModelOpen(api, modelID)
       IN [scene |-> st.scene,
           log |-> IF closes THEN Append(st.log, Event("model", modelID)) ELSE st.log,
           api |-> IF modelID # Null THEN cleanupIfcModel(api, modelID) ELSE api,
           meshes |-> <<>>, modelID |-> Null]
  ELSE [scene |-> sc, log |-> <<>>, api |-> api, meshes |-> meshes, modelID |-> modelID]

\* Ids only tell objects apart.  When the drop handler reaches its await no reference
\* to a disposed object is left (currentIfcMeshes is empty or holds live meshes, the
\* highlight is cleared, no load holds locals), so the numbering goes on above the
\* ids of the objects still in the scene.
Renumbered(sc) ==
  LET used == {0} \cup MeshIds(sc) \cup {sc.materials[i].id : i \in 1..Len(sc.materials)}
                  \cup {sc.transformNodes[i].id : i \in 1..Len(sc.transformNodes)}
  IN [sc EXCEPT !.nextId = 1 + CHOOSE x \in used : \A y \in used : y <= x]

\* the drop handler up to its await: teardown, clear the highlight, call loadAndRenderIfc,
\* which calls loadIfcFile, which awaits file.arrayBuffer()
DropHandler ==
  /\ handlersInstalled /\ Running = {}
  /\ drops < lim.drops
  /\ LET t == Teardown(scene, ifcAPI, currentIfcMeshes, currentModelID)
         h == hideUpperTextAndClearHighlight(t.scene, currentHighlightedMesh)
     IN /\ scene' = Renumbered(h.scene)
        /\ currentHighlightedMesh' = h.highlighted
        /\ ifcAPI' = t.api
        /\ currentIfcMeshes' = t.meshes
        /\ currentModelID' = t.modelID
        /\ last' = [Step("Drop") EXCEPT !.log = t.log]
  /\ loads' = Append(loads, NewLoad(FALSE, currentModelID))
  /\ drops' = drops + 1
  /\ UNCHANGED <<job, handlersInstalled, lim, probe>>

\* a file is dropped, whatever else is going on
Drop == DropHandler

\* a file is dropped while no load is in flight
DropWhenIdle == loads = <<>> /\ DropHandler

\* the highlight set on the picked mesh without removing the previous one
HighlightKeepingPrevious(sc, highlighted, picked) ==
  [scene |-> UpdateMesh(sc, picked, [renderOverlay |-> TRUE]), highlighted |-> picked]

\* lines 177-186 of the pointer handler: move the highlight to the picked mesh
Highlight(sc, highlighted, picked) ==
  LET Off == [renderOverlay |-> FALSE]
      On == [renderOverlay |-> TRUE]
      sc1 == IF highlighted # Null THEN UpdateMesh(sc, highlighted, Off) ELSE sc
  IN [scene |-> UpdateMesh(sc1, picked, On), highlighted |-> picked]

\* scene.onPointerDown with a hit on a mesh of the scene: GetLine(modelID, expressID)
\* is called with the mesh's metadata; shown tells whether lines 169-175 complete
\* (they throw when the record cannot be read or has no Name)
Pick ==
  /\ handlersInstalled /\ Running = {}
  /\ \E m \in scene.meshes : \E shown \in BOOLEAN :
       LET h == IF shown THEN Highlight(scene, currentHighlightedMesh, m.id)
                ELSE [scene |-> scene, highlighted |-> currentHighlightedMesh]
       IN /\ scene' = h.scene
          /\ currentHighlightedMesh' = h.highlighted
          /\ last' = Step("pointer")
  /\ UNCHANGED <<ifcAPI, currentIfcMeshes, currentModelID, loads, job, handlersInstalled,
                 drops, lim, probe>>

\* scene.onPointerDown without a hit
PickNothing ==
  /\ handlersInstalled /\ Running = {}
  /\ LET h == hideUpperTextAndClearHighlight(scene, currentHighlightedMesh)
     IN scene' = h.scene /\ currentHighlightedMesh' = h.highlighted
  /\ last' = Step("pointer")
  /\ UNCHANGED <<ifcAPI, currentIfcMeshes, currentModelID, loads, job, handlersInstalled,
                 drops, lim, probe>>

-----------------------------------------------------------------------------
(* Specifications *)

Next ==
  \/ \E l \in Loads : SourceFetchError(l)
  \/ \E l \in Loads : ParseOpenError(l)
  \/ \E l \in Loads : OpenModel(l)
  \/ \E l \in Loads : BeginGeometry(l)
  \/ \E l \in Loads : StreamCallback(l)
  \/ \E l \in Loads : StreamThrows(l)
  \/ \E l \in Loads : Consolidate(l)
  \/ \E l \in Loads : StoreResult(l)
  \/ Drop
  \/ Pick
  \/ PickNothing

\* the viewer: initial load, drops, clicks
Spec == Init /\ [][Next]_vars

NextLoad ==
  \/ \E l \in Loads : SourceFetchError(l)
  \/ \E l \in Loads : ParseOpenError(l)
  \/ \E l \in Loads : OpenModel(l)
  \/ \E l \in Loads : BeginGeometry(l)
  \/ \E l \in Loads : StreamCallback(l)
  \/ \E l \in Loads : StreamThrows(l)
  \/ \E l \in Loads : Consolidate(l)
  \/ \E l \in Loads : StoreResult(l)

\* the initial load of a file, from the request to the stored result
SpecLoad == InitLoad /\ [][NextLoad]_vars

NextSequential ==
  \/ \E l \in Loads : OpenModel(l)
  \/ \E l \in Loads : BeginGeometry(l)
  \/ \E l \in Loads : StreamCallback(l)
  \/ \E l \in Loads : Consolidate(l)
  \/ \E l \in Loads : StoreResult(l)
  \/ DropWhenIdle
  \/ Pick
  \/ PickNothing

\* the viewer when every load succeeds and no file is dropped while a load is in flight
SpecSequential == Init /\ [][NextSequential]_vars

NextReadFailure ==
  \/ \E l \in Loads : SourceFetchError(l)
  \/ \E l \in Loads : OpenModel(l)
  \/ \E l \in Loads : BeginGeometry(l)
  \/ \E l \in Loads : StreamCallback(l)
  \/ \E l \in Loads : Consolidate(l)
  \/ \E l \in Loads : StoreResult(l)
  \/ DropWhenIdle
  \/ Pick
  \/ PickNothing

\* the viewer when a load either fails to read its bytes or succeeds, and no file is
\* dropped while a load is in flight
SpecReadFailure == Init /\ [][NextReadFailure]_vars

NextOverlap ==
  \/ \E l \in Loads : OpenModel(l)
  \/ \E l \in Loads : BeginGeometry(l)
  \/ \E l \in Loads : StreamCallback(l)
  \/ \E l \in Loads : Consolidate(l)
  \/ \E l \in Loads : StoreResult(l)
  \/ Drop
  \/ Pick
  \/ PickNothing

\* the viewer when every load succeeds, files being dropped at any time
SpecOverlap == Init /\ [][NextOverlap]_vars

-----------------------------------------------------------------------------
(* Properties of the consolidation, stated of a load whose                    *)
(* loadIfcGeometryAsMeshes has returned (SpecLoad)                            *)

\* the fragments collected in meshesWithColor
Collected == {job.meshesWithColor[i].part : i \in 1..Len(job.meshesWithColor)}

\* the meshes a returned load hands to its caller
Returned(l) == {MeshById(scene, id) : id \in Range(loads[l].meshes)}

\* C1: no returned mesh holds fragments of two different expressIDs, unless the two
\* fragments have the same colorId and their elements are storey-compatible (neither
\* has an entry in elementToStorey, or both map to the same storey).
C1_NoCrossElementMerge ==
  \A l \in Loads : loads[l].pc = "returned" =>
    \A m \in Returned(l) : \A p, q \in m.parts :
      p.expressID # q.expressID =>
        /\ p.colorId = q.colorId
        /\ LET map == job.elementToStorey
           IN \/ p.expressID \notin DOMAIN map /\ q.expressID \notin DOMAIN map
              \/ /\ p.expressID \in DOMAIN map /\ q.expressID \in DOMAIN map
                 /\ map[p.expressID] = map[q.expressID]

\* a load has returned two meshes of different elements with the same colorId, one
\* element with a storey entry and the other without
C1_Witness ==
  \E l \in Loads :
    /\ loads[l].pc = "returned"
    /\ \E m, n \in Returned(l) :
         /\ m.expressID # n.expressID
         /\ MaterialById(scene, m.material).colorId = MaterialById(scene, n.material).colorId
         /\ m.expressID \in DOMAIN job.elementToStorey
         /\ n.expressID \notin DOMAIN job.elementToStorey

\* C2 as stated: every expressID with a collected (hence non-empty) fragment has
\* exactly one mesh in the returned list.
C2_ExactlyOneMeshPerElement ==
  \A l \in Loads : loads[l].pc = "returned" =>
    \A e \in {p.expressID : p \in Collected} :
      Cardinality({m \in Returned(l) : m.expressID = e}) = 1

\* C2: for every expressID and colorId that some collected fragment has, the returned
\* list holds exactly one mesh of that expressID with that colour's material, made of
\* all the fragments of that expressID and colorId; unless Mesh.MergeMeshes returned
\* null for the group, in which case every fragment of the group is returned as a
\* mesh of its own.
C2_OneMeshPerElementAndColour ==
  \A l \in Loads : loads[l].pc = "returned" =>
    \A f \in Collected :
      LET group == {p \in Collected : p.expressID = f.expressID /\ p.colorId = f.colorId}
          ms == {m \in Returned(l) : /\ m.expressID = f.expressID
                                     /\ MaterialById(scene, m.material).colorId = f.colorId}
      IN IF groupKey(f.expressID, f.colorId) \in job.nulls
         THEN /\ Cardinality(ms) = Cardinality(group)
              /\ \A p \in group : \E m \in ms : m.parts = {p}
         ELSE \E m \in ms : ms = {m} /\ m.parts = group

\* a load has returned two meshes of one element, which differ in colour
C2_Witness ==
  \E l \in Loads :
    /\ loads[l].pc = "returned"
    /\ \E m, n \in Returned(l) :
         /\ m.expressID = n.expressID
         /\ MaterialById(scene, m.material).colorId # MaterialById(scene, n.material).colorId

-----------------------------------------------------------------------------
(* Properties of the teardown the drop handler runs (SpecSequential: every    *)
(* load succeeds and has settled before the next file is dropped)             *)

\* the drop handler has just run its teardown block for a resident model
TornDown == last.step = "Drop" /\ loads[Len(loads)].prior # Null

\* the ifc-root nodes of the scene, by position
IfcRoots == {i \in 1..Len(scene.transformNodes) : scene.transformNodes[i].name = RootName}

\* the ifc materials of the scene, by position
IfcMaterials == {i \in 1..Len(scene.materials) : IsIfcMaterial(scene.materials[i])}

\* C3: once a load that replaces a resident model has created a mesh, nothing of the
\* resident model is left: no mesh, no ifc material, no ifc-root node of it is in the
\* scene and its parser model is closed.
C3_TeardownBeforeFirstMesh ==
  \A l \in Loads :
    (/\ loads[l].prior # Null
     /\ loads[l].modelID # Null
     /\ \E m \in scene.meshes : m.modelID = loads[l].modelID) =>
      /\ \A m \in scene.meshes : m.modelID # loads[l].prior
      /\ \A i \in IfcMaterials : scene.materials[i].modelID # loads[l].prior
      /\ \A i \in IfcRoots : scene.transformNodes[i].modelID # loads[l].prior
      /\ ~IsModelOpen(ifcAPI, loads[l].prior)

\* C4: the dispose and close calls of a teardown come in the order meshes, materials,
\* root node, parser model, and no material is disposed while a mesh of the scene
\* still refers to it.
C4_TeardownOrder ==
  last.step = "Drop" =>
    LET Rank(kind) == CASE kind = "mesh" -> 1 [] kind = "material" -> 2
                        [] kind = "root" -> 3 [] kind = "model" -> 4
        log == last.log
    IN /\ \A i, j \in 1..Len(log) : i < j => Rank(log[i].kind) <= Rank(log[j].kind)
       /\ \A i \in 1..Len(log) : ~log[i].inUse

\* C5: after the disposeIfcScene of a teardown no material named ifc-material-* is
\* in the scene.
C5_NoIfcMaterialRemains == TornDown => IfcMaterials = {}

\* C6: when every load succeeds and no file is dropped during a load, then after the
\* teardown block of the drop handler the scene holds no mesh and no ifc-root node,
\* the model that was resident is closed, currentIfcMeshes is empty and
\* currentModelID is null.
C6_TeardownLeavesNoModel ==
  TornDown =>
    /\ scene.meshes = {}
    /\ IfcRoots = {}
    /\ ~IsModelOpen(ifcAPI, loads[Len(loads)].prior)
    /\ currentIfcMeshes = <<>>
    /\ currentModelID = Null

\* the second file has been dropped, and the teardown it ran disposed meshes, a root
\* node and closed the resident model
C6_Witness ==
  /\ TornDown
  /\ drops = 2
  /\ \A kind \in {"mesh", "root", "model"} :
       \E i \in 1..Len(last.log) : last.log[i].kind = kind

-----------------------------------------------------------------------------
(* Properties of loads that overlap (SpecOverlap) or fail (Spec)              *)

\* C7: no second load is started while a load is in flight: at most one
\* loadAndRenderIfc is unsettled.
C7_OneLoadInFlight == Len(loads) <= 1

\* C8: once all loads have settled, the scene holds at most one ifc-root node, at
\* most one parser model is open, and an open model is the one in currentModelID.
C8_NothingAccumulates ==
  loads = <<>> =>
    /\ Cardinality(IfcRoots) <= 1
    /\ Cardinality(ifcAPI.open) <= 1
    /\ \A modelID \in ifcAPI.open : modelID = currentModelID

\* C9: when a load has failed, the scene holds no ifc-root node, no mesh and no ifc
\* material that the failed load created.
C9_FailedLoadLeavesNothing ==
  last.step = "rejected" =>
    /\ \A i \in IfcRoots : scene.transformNodes[i].modelID # last.modelID
    /\ \A m \in scene.meshes : m.modelID # last.modelID
    /\ \A i \in IfcMaterials : scene.materials[i].modelID # last.modelID

\* C10: whenever the pointer handler can run, every mesh it can be given carries the
\* modelID of an open model, so that GetLine is never called on a closed model.
C10_PickedModelIsOpen ==
  (handlersInstalled /\ Running = {}) => \A m \in scene.meshes : IsModelOpen(ifcAPI, m.modelID)

-----------------------------------------------------------------------------
(* colorId as a function of the colour (SpecColor): lines 305-315 applied to  *)
(* two colours                                                                *)

\* channel values: 0, 1/510 (quantized to 0), 3/510 (quantized to 1), 1
ChannelValues == {<<0, 510>>, <<1, 510>>, <<3, 510>>, <<510, 510>>}

\* the RGBA colours with these channels
RGBA == [1..4 -> ChannelValues]

InitColor ==
  /\ InitState
  /\ lim = [frags |-> 0, elems |-> {}, colors |-> RGBA, rels |-> 0, drops |-> 0]
  /\ \E a \in RGBA, b \in RGBA :
       probe = [a |-> a, b |-> b, done |-> FALSE, ida |-> <<>>, idb |-> <<>>]

\* the colorId of both colours is computed
ComputeColorIds ==
  /\ ~probe.done
  /\ probe' = [probe EXCEPT !.done = TRUE, !.ida = ColorId(probe.a), !.idb = ColorId(probe.b)]
  /\ UNCHANGED <<scene, ifcAPI, currentIfcMeshes, currentModelID, currentHighlightedMesh,
                 loads, job, handlersInstalled, drops, last, lim>>

NextColor == ComputeColorIds

SpecColor == InitColor /\ [][NextColor]_vars

\* the channels of a colour after 8-bit quantization
Quantized(color) == [i \in 1..4 |-> Floor255(color[i])]

\* channel i of a and of b differ by more than 1/255
FarApart(a, b, i) ==
  LET cross == (a[i][1] * b[i][2]) - (b[i][1] * a[i][2])
  IN 255 * (IF cross < 0 THEN 0 - cross ELSE cross) > a[i][2] * b[i][2]

\* C11: two colours that are equal after 8-bit quantization have the same colorId;
\* two colours whose quantized channels differ, in particular two colours that differ
\* by more than 1/255 in some channel, have different colorIds; and a colorId is
\* below 2^32 (its part above 2^24 is at most 255).
C11_ColorIdInjective ==
  probe.done =>
    /\ Quantized(probe.a) = Quantized(probe.b) => probe.ida = probe.idb
    /\ Quantized(probe.a) # Quantized(probe.b) => probe.ida # probe.idb
    /\ (\E i \in 1..4 : FarApart(probe.a, probe.b, i)) => probe.ida # probe.idb
    /\ probe.ida[1] \in 0..255 /\ probe.ida[2] \in 0..16777215

\* the colorIds of two colours have been computed, which differ by more than
\* 1/255 in the red channel and are equal after quantization in the other channels
C11_Witness ==
  /\ probe.done
  /\ FarApart(probe.a, probe.b, 1)
  /\ \A i \in 2..4 : /\ probe.a[i] # probe.b[i]
                      /\ Floor255(probe.a[i]) = Floor255(probe.b[i])
  /\ probe.ida # probe.idb

-----------------------------------------------------------------------------
(* Materials of a load whose loadIfcGeometryAsMeshes has returned (SpecLoad)  *)

\* C12: a material made for a colour with alpha < 1.0 has an alpha of at least 0.2.
C12_AlphaFloor ==
  \A i \in IfcMaterials :
    LET alpha == scene.materials[i].alpha
    IN alpha[1] < alpha[2] => 5 * alpha[1] >= alpha[2]

\* C13: when a load has returned, the scene holds exactly one material per colorId
\* of the collected fragments, every returned mesh refers to the material of the
\* colorId of its fragments (so meshes of one colorId share one material), and
\* stats.materialCount is the number of distinct colorIds of the collected fragments.
C13_OneMaterialPerColorId ==
  \A l \in Loads : loads[l].pc = "returned" =>
    LET colorIds == {p.colorId : p \in Collected}
    IN /\ \A c \in colorIds :
            Cardinality({i \in IfcMaterials : scene.materials[i].colorId = c}) = 1
       /\ Cardinality(IfcMaterials) = Cardinality(colorIds)
       /\ \A m \in Returned(l) : \A p \in m.parts :
            MaterialById(scene, m.material).colorId = p.colorId
       /\ \A m, n \in Returned(l) :
            (\E p \in m.parts, q \in n.parts : p.colorId = q.colorId) => m.material = n.material
       /\ job.materialCount = Cardinality(colorIds)

\* a load has returned two meshes of different elements that share one material,
\* the only material of the scene
C13_Witness ==
  \E l \in Loads :
    /\ loads[l].pc = "returned"
    /\ \E m, n \in Returned(l) : m.expressID # n.expressID /\ m.material = n.material
    /\ Cardinality(IfcMaterials) = 1
    /\ job.materialCount = 1

-----------------------------------------------------------------------------
(* Grouping as a function of the stream (SpecGrouping): the same fragments    *)
(* are streamed in two orders and grouped by lines 369-381                    *)

\* the permutations of 1..n
Perms(n) == {p \in [1..n -> 1..n] : \A i, j \in 1..n : p[i] = p[j] => i = j}

\* the fragments a stream is made of: element and colour, non-empty and well-formed
Fragments == [expressID : ExpressIDs, color : Colors]

RECURSIVE StreamInOrder(_, _, _, _)
\* the state [scene, job] after the fragments frags[order[k]], frags[order[k+1]], ...
\* have been processed in that order
StreamInOrder(st, frags, order, k) ==
  IF k > Len(frags) THEN st
  ELSE StreamInOrder(ProcessGeometry(st, frags[order[k]].expressID, 0,
                                     [color |-> frags[order[k]].color, outcome |-> "ok"]),
                     frags, order, k + 1)

\* meshGroups for the fragments streamed in the given order
GroupsInOrder(frags, order) ==
  LET st0 == [scene |-> NewRootNode(EmptyScene, 0),
              job |-> [EmptyJob EXCEPT !.modelID = 0, !.rootNode = 1]]
      st == StreamInOrder(st0, frags, order, 1)
  IN GroupMeshes(st.scene, st.job.meshesWithColor)

\* the groups as sets of fragments (positions in frags), with their keys
Memberships(groups, order) ==
  {[key |-> groups[g].key,
    members |-> {order[groups[g].items[i].part.serial] : i \in 1..Len(groups[g].items)}] :
     g \in 1..Len(groups)}

InitGrouping ==
  /\ InitState
  /\ lim = [frags |-> MaxGroupFrags, elems |-> ExpressIDs, colors |-> Colors, rels |-> 0,
            drops |-> 0]
  /\ \E frags \in SeqsUpTo(Fragments, MaxGroupFrags) : \E order \in Perms(Len(frags)) :
       probe = [frags |-> frags, order |-> order, done |-> FALSE, first |-> {}, second |-> {}]

\* the fragments are grouped as streamed, and as streamed in the other order
GroupBothOrders ==
  /\ ~probe.done
  /\ LET same == [i \in 1..Len(probe.frags) |-> i]
     IN probe' = [probe EXCEPT
                    !.done = TRUE,
                    !.first = Memberships(GroupsInOrder(probe.frags, same), same),
                    !.second = Memberships(GroupsInOrder(probe.frags, probe.order), probe.order)]
  /\ UNCHANGED <<scene, ifcAPI, currentIfcMeshes, currentModelID, currentHighlightedMesh,
                 loads, job, handlersInstalled, drops, last, lim>>

NextGrouping == GroupBothOrders

SpecGrouping == InitGrouping /\ [][NextGrouping]_vars

\* C14: the same fragments streamed in two orders are partitioned into the same
\* groups, and each group has the same key in both.
C14_GroupingOrderIndependent == probe.done => probe.first = probe.second

\* three fragments have been grouped in two different orders, two of them in one
\* group; in one order the two are apart, in the other they are adjacent
C14_Witness ==
  /\ probe.done
  /\ Len(probe.frags) = 3
  /\ probe.frags[1] = probe.frags[3] /\ probe.frags[1] # probe.frags[2]
  /\ probe.order = <<2, 1, 3>>
  /\ \E g \in probe.second : g.members = {1, 3}

-----------------------------------------------------------------------------
(* The merge step and the stream callback, fragment by fragment (SpecLoad)    *)

\* the collected fragments that share element and colorId with the fragment f
GroupOf(f) == {p \in Collected : p.expressID = f.expressID /\ p.colorId = f.colorId}

\* the meshes the stream callback created for the fragments of the set group
SourceMeshes(group) ==
  {job.meshesWithColor[i].mesh :
     i \in {k \in 1..Len(job.meshesWithColor) : job.meshesWithColor[k].part \in group}}

\* C15: for every group of two or more collected fragments of one expressID and
\* colorId whose merge succeeded, the returned list holds exactly one mesh with
\* fragments of the group; it is named ifc-<expressID>, holds the triangles of all
\* the fragments of the group, and no mesh the group was merged from is returned.
C15_MergedGroupIsOneMesh ==
  \A l \in Loads : loads[l].pc = "returned" =>
    \A f \in Collected :
      (Cardinality(GroupOf(f)) >= 2 /\ groupKey(f.expressID, f.colorId) \notin job.nulls) =>
        /\ \E m \in Returned(l) :
             /\ {n \in Returned(l) : n.parts \cap GroupOf(f) # {}} = {m}
             /\ m.name = MeshName(f.expressID)
             /\ m.parts = GroupOf(f)
        /\ SourceMeshes(GroupOf(f)) \cap Range(loads[l].meshes) = {}

\* a load has returned the mesh merged from two fragments of one element and colour
C15_Witness ==
  \E l \in Loads :
    /\ loads[l].pc = "returned"
    /\ job.branches = <<"merged">>
    /\ \E m \in Returned(l) : Cardinality(m.parts) = 2

\* C16: a fragment with an empty vertex or index buffer is not counted in
\* stats.originalMeshCount, has no mesh, has its geometry handle released once and
\* does not stop the stream: every well-formed fragment, before or after it, is
\* collected; a stream without collected fragments returns an empty list.
C16_EmptyFragmentSkipped ==
  \A l \in Loads : (loads[l].pc \in {"streaming", "returned"} /\ job.load = l) =>
    LET n == Len(job.outcomes)
        counted == {k \in 1..n : job.outcomes[k] \in {"ok", "throwApply"}}
    IN /\ job.originalMeshCount = Cardinality(counted)
       /\ \A k \in 1..n : job.outcomes[k] = "empty" =>
            /\ job.handles[k] = 1
            /\ \A m \in scene.meshes : \A p \in m.parts : p.serial # k
       /\ \A k \in 1..n : job.outcomes[k] = "ok" => \E p \in Collected : p.serial = k
       /\ (loads[l].pc = "returned" /\ Collected = {}) => loads[l].meshes = <<>>

\* a load has returned the mesh of the second of two fragments, the first being empty
C16_Witness ==
  \E l \in Loads :
    /\ loads[l].pc = "returned"
    /\ job.outcomes = <<"empty", "ok">>
    /\ Len(loads[l].meshes) = 1

\* C17: when Mesh.MergeMeshes returns null for a group of two or more fragments, the
\* load returns, and every mesh of the group is in the returned list as it was
\* created (same fragment, expressID and modelID), named ifc-<expressID>, all of them
\* with the one material of the group's colorId.
C17_FailedMergeKeepsMeshes ==
  \A l \in Loads : loads[l].pc = "returned" =>
    \A f \in Collected :
      (Cardinality(GroupOf(f)) >= 2 /\ groupKey(f.expressID, f.colorId) \in job.nulls) =>
        \A i \in 1..Len(job.meshesWithColor) :
          LET item == job.meshesWithColor[i]
          IN item.part \in GroupOf(f) =>
               \E m \in Returned(l) :
                 /\ m.id = item.mesh
                 /\ m.parts = {item.part}
                 /\ m.name = MeshName(f.expressID)
                 /\ m.expressID = f.expressID /\ m.modelID = loads[l].modelID
                 /\ MaterialById(scene, m.material).colorId = f.colorId
                 /\ Cardinality({j \in IfcMaterials : scene.materials[j].colorId = f.colorId}) = 1

\* a load has returned the two meshes of a group whose merge returned null
C17_Witness ==
  \E l \in Loads :
    /\ loads[l].pc = "returned"
    /\ job.branches = <<"mergeFailed">>
    /\ Len(loads[l].meshes) = 2
    /\ \A m \in Returned(l) : m.material # Null

\* C18: a load is rejected only because its bytes could not be read or because
\* OpenModel returned -1.
C18_OnlyReadAndOpenReject ==
  last.step = "rejected" => last.error \in {"SourceFetchError", "ParseOpenError"}

\* C19: every returned mesh carries the expressID of each fragment it is made of and
\* the modelID of the load.
C19_MetadataOfReturnedMeshes ==
  \A l \in Loads : loads[l].pc = "returned" =>
    \A m \in Returned(l) :
      /\ m.parts # {}
      /\ \A p \in m.parts : m.expressID = p.expressID
      /\ m.modelID = loads[l].modelID

\* a load has returned a merged mesh, whose metadata names the element of its two
\* fragments and the model of the load
C19_Witness ==
  \E l \in Loads :
    /\ loads[l].pc = "returned"
    /\ \E m \in Returned(l) :
         /\ Cardinality(m.parts) = 2
         /\ m.name = MeshName(m.expressID)
         /\ IsModelOpen(ifcAPI, m.modelID)

-----------------------------------------------------------------------------
(* A load that cannot read its bytes (SpecReadFailure)                        *)

\* the load that has just been rejected could not read its bytes
ReadFailed(step) == step.step = "rejected" /\ step.error = "SourceFetchError"

\* C20 as stated: when the bytes of a dropped file cannot be read, the model that was
\* displayed before the drop is as it was: open, current, with its root node.
C20_PreviousModelUntouched ==
  (ReadFailed(last) /\ last.prior # Null) =>
    /\ IsModelOpen(ifcAPI, last.prior)
    /\ currentModelID = last.prior
    /\ \E i \in IfcRoots : scene.transformNodes[i].modelID = last.prior

\* C20: the step in which a load fails to read its bytes changes neither the scene
\* nor the parser nor currentIfcMeshes nor currentModelID; the model that was displayed
\* when the file was dropped is not preserved: the teardown block has closed it before
\* the read, and it is not the current model.
C20_FailedReadChangesNothing ==
  [][ReadFailed(last') =>
       /\ UNCHANGED <<scene, ifcAPI, currentIfcMeshes, currentModelID>>
       /\ last'.prior # Null =>
            /\ ~IsModelOpen(ifcAPI, last'.prior)
            /\ currentModelID # last'.prior]_vars

\* the bytes of a file dropped over a displayed model could not be read
C20_Witness == ReadFailed(last) /\ last.prior # Null /\ drops >= 1

-----------------------------------------------------------------------------
(* Colours, fragments and statistics of a load (SpecLoad)                     *)

\* C21: two collected fragments with the same colorId are either both without colour
\* or both coloured, with the same channels after 8-bit quantization; a fragment
\* without colour shares its colorId, group key and material with no coloured one.
C21_NoColourNeverCollides ==
  \A i, j \in 1..Len(job.meshesWithColor) :
    LET a == job.meshesWithColor[i]
        b == job.meshesWithColor[j]
    IN a.colorId = b.colorId =>
         \/ a.color = NoColor /\ b.color = NoColor
         \/ /\ a.color # NoColor /\ b.color # NoColor
            /\ Quantized(a.color) = Quantized(b.color)

-----------------------------------------------------------------------------
(* The storey map as a function of the relationship records (SpecStoreyMap)   *)

\* records as a file may hold them: well-formed, with a field missing, or unreadable
\* (GetLine throws, or returns nothing so that reading a field throws)
AnyRelRecords ==
  [kind : {"agg", "cont"}, relating : Range(Storeys) \cup {Null},
   related : {<<>>} \cup {<<e>> : e \in ExpressIDs}, throws : {FALSE}]
  \cup [kind : {"agg", "cont"}, relating : {Null}, related : {<<>>}, throws : {TRUE}]

InitStoreyMap ==
  /\ InitState
  /\ lim = [frags |-> 0, elems |-> ExpressIDs, colors |-> {}, rels |-> MaxRels, drops |-> 0]
  /\ \E rels \in SeqsUpTo(AnyRelRecords, MaxRels) :
       probe = [rels |-> rels, done |-> FALSE, elementToStorey |-> <<>>]

\* buildStoreyMap runs on the records
BuildStoreyMap ==
  /\ ~probe.done
  /\ probe' = [probe EXCEPT !.done = TRUE, !.elementToStorey = buildStoreyMap(probe.rels)]
  /\ UNCHANGED <<scene, ifcAPI, currentIfcMeshes, currentModelID, currentHighlightedMesh,
                 loads, job, handlersInstalled, drops, last, lim>>

NextStoreyMap == BuildStoreyMap

SpecStoreyMap == InitStoreyMap /\ [][NextStoreyMap]_vars

\* the positions of the well-formed records that relate the element e to a storey
RelationsOf(rels, e) ==
  {k \in 1..Len(rels) : /\ ~rels[k].throws
                        /\ rels[k].relating \in Range(Storeys)
                        /\ e \in Range(rels[k].related)}

\* C22: every element of every well-formed relationship whose relating side is a
\* storey is mapped, to the storey of one of its well-formed relationships, whatever
\* other records are malformed or unreadable.
C22_StoreyMapResilient ==
  probe.done =>
    \A e \in ExpressIDs :
      RelationsOf(probe.rels, e) # {} =>
        /\ e \in DOMAIN probe.elementToStorey
        /\ \E k \in RelationsOf(probe.rels, e) :
             probe.elementToStorey[e] = probe.rels[k].relating

-----------------------------------------------------------------------------
(* Fragments whose processing throws, and geometry handles (SpecLoad)         *)

\* the fragments (positions in the stream) whose processing threw inside the try block
Thrown == {k \in 1..Len(job.outcomes) : job.outcomes[k] \in {"throwDecode", "throwApply"}}

\* C23: a fragment whose processing threw is not collected, hence in no group, and is
\* part of no returned mesh; every well-formed fragment, before or after it, of the
\* same or of another element, is collected and part of a returned mesh.
C23_ThrowingFragmentSkipped ==
  \A l \in Loads : (loads[l].pc \in {"streaming", "returned"} /\ job.load = l) =>
    /\ \A p \in Collected : p.serial \notin Thrown
    /\ \A k \in 1..Len(job.outcomes) : job.outcomes[k] = "ok" => \E p \in Collected : p.serial = k
    /\ loads[l].pc = "returned" =>
         /\ \A m \in Returned(l) : \A p \in m.parts : p.serial \notin Thrown
         /\ \A p \in Collected : \E m \in Returned(l) : p \in m.parts

\* a load has returned the mesh of the second fragment of an element, after applying
\* the vertex data of the first had thrown
C23_Witness ==
  \E l \in Loads :
    /\ loads[l].pc = "returned"
    /\ job.outcomes = <<"throwApply", "ok">>
    /\ Cardinality(job.streamed) = 1
    /\ \E m \in Returned(l) : \E p \in m.parts : p.serial = 2

\* C25: every geometry handle obtained for a fragment has been released exactly once
\* when the loop moves on, whether the fragment was empty, processed or threw.
C25_HandlesReleasedOnce ==
  /\ Len(job.handles) = Len(job.outcomes)
  /\ \A k \in 1..Len(job.handles) : job.handles[k] = 1

\* two fragments have been streamed, decoding the first threw and the second was
\* collected, and both handles are released
C25_Witness ==
  /\ job.outcomes = <<"throwDecode", "ok">>
  /\ job.handles = <<1, 1>>
  /\ Len(job.meshesWithColor) = 1

-----------------------------------------------------------------------------
(* Overlapping loads (SpecInterleave)                                         *)

\* overlapping loads of files of up to two elements of one fragment each, or one
\* element of two fragments, all of one colour
InitInterleave ==
  /\ InitState
  /\ probe = <<>>
  /\ lim = [frags |-> Cardinality(ExpressIDs), elems |-> ExpressIDs, colors |-> {Red},
            rels |-> 0, drops |-> MaxDrops]

SpecInterleave == InitInterleave /\ [][NextOverlap]_vars

\* the steps of loadAndRenderIfc and of its caller that follow OpenModel
LoadSteps == {"BeginGeometry", "StreamCallback", "Consolidate", "StoreResult", "rejected"}

\* C24: from the OpenModel of a load until its mesh list is stored, every step is a
\* step of that load: no file is dropped, no pointer event is handled and no other
\* load moves, so streaming and grouping are never interleaved with anything else;
\* at most one load is in that stretch, and the streaming locals are its own.
C24_StreamingNotInterleaved ==
  [][\A l \in Loads : loads[l].pc \in {"opened", "streaming", "returned"} =>
       /\ \A k \in Loads : loads[k].pc \in {"opened", "streaming", "returned"} => k = l
       /\ loads[l].pc # "opened" => job.load = l /\ job.modelID = loads[l].modelID
       /\ last'.step \in LoadSteps
       /\ drops' = drops
       /\ currentHighlightedMesh' = currentHighlightedMesh
       /\ \/ loads' = Settled(l)
          \/ /\ Len(loads') = Len(loads)
             /\ \A k \in Loads \ {l} : loads'[k] = loads[k]]_vars

\* a load has collected a fragment while another load, requested by a later drop,
\* waits for its bytes, and the pointer handler is installed
C24_Witness ==
  \E l, k \in Loads :
    /\ l # k
    /\ loads[l].pc = "streaming" /\ job.load = l /\ Len(job.meshesWithColor) >= 1
    /\ loads[k].pc = "fetch"
    /\ handlersInstalled

-----------------------------------------------------------------------------
(* The storey check of the merge step (SpecLoad)                              *)

\* C26: while the fragments are collected, canMergeMeshes is true of the meshes of
\* every group of the grouping and every element-to-storey map the relationship
\* records of the file can give; once the load has returned, no group has taken the
\* "cannot merge - different storeys" branch.
C26_GroupsAlwaysMergeable ==
  \A l \in Loads :
    /\ (loads[l].pc = "streaming" /\ job.load = l) =>
         LET groups == GroupMeshes(scene, job.meshesWithColor)
         IN \A g \in 1..Len(groups) :
              \A rels \in SeqsUpTo({r \in RelRecords : Range(r.related) \subseteq lim.elems}, lim.rels) :
                canMergeMeshes({MeshById(scene, groups[g].items[i].mesh) : i \in 1..Len(groups[g].items)},
                               buildStoreyMap(rels))
    /\ loads[l].pc = "returned" => "cannotMerge" \notin Range(job.branches)

\* a load has returned the mesh merged from the two fragments of an element that
\* the file places in a storey, the other element being placed in another storey
C26_Witness ==
  \E l \in Loads :
    /\ loads[l].pc = "returned"
    /\ job.branches = <<"merged">>
    /\ \E m \in Returned(l) :
         /\ Cardinality(m.parts) = 2
         /\ m.expressID \in DOMAIN job.elementToStorey
         /\ \E e \in DOMAIN job.elementToStorey :
              job.elementToStorey[e] # job.elementToStorey[m.expressID]

-----------------------------------------------------------------------------
(* The meshes under the root node and the statistics (SpecLoad)               *)

\* C27: once loadIfcGeometryAsMeshes has returned, every mesh of the scene under the
\* ifc-root node of the load is in the returned list and has a material.
C27_NoMeshOutsideReturnedList ==
  \A l \in Loads : loads[l].pc = "returned" =>
    \A m \in scene.meshes : m.parent = job.rootNode =>
      /\ m.id \in Range(loads[l].meshes)
      /\ m.material # Null

\* C28: once the load has returned, groups <= stats.mergedMeshCount = length of the
\* returned list <= collected fragments <= stats.originalMeshCount.
C28_StatisticsOrdered ==
  \A l \in Loads : loads[l].pc = "returned" =>
    /\ Len(job.meshGroups) <= job.mergedMeshCount
    /\ job.mergedMeshCount = Len(loads[l].meshes)
    /\ Len(loads[l].meshes) <= Len(job.meshesWithColor)
    /\ Len(job.meshesWithColor) <= job.originalMeshCount

\* a load has returned the two meshes of one group whose merge failed: one group,
\* two returned meshes, two collected and two counted fragments
C28_Witness ==
  \E l \in Loads :
    /\ loads[l].pc = "returned"
    /\ job.branches = <<"mergeFailed">>
    /\ Len(job.meshGroups) = 1
    /\ job.mergedMeshCount = 2
    /\ job.originalMeshCount = 2

-----------------------------------------------------------------------------
(* Parser models of loads that reject (SpecLoad)                              *)

\* C29: when loadAndRenderIfc has rejected after OpenModel returned a model id, that
\* model is closed; when no load is in flight, every open parser model is the one
\* recorded in currentModelID.
C29_RejectedLoadClosesModel ==
  /\ (last.step = "rejected" /\ last.modelID # Null) => ~IsModelOpen(ifcAPI, last.modelID)
  /\ loads = <<>> => \A modelID \in ifcAPI.open : modelID = currentModelID

-----------------------------------------------------------------------------
(* The highlight (SpecSequential)                                             *)

\* the meshes of a scene drawn with the overlay
Highlighted(sc) == {m.id : m \in {x \in sc.meshes : x.renderOverlay}}

\* C30: in every state at most one mesh has renderOverlay set, and it is the mesh
\* currentHighlightedMesh refers to; after a pointer event without a hit and after
\* the drop handler has run up to its await, no mesh has renderOverlay set and
\* currentHighlightedMesh is null.
C30_SingleHighlight ==
  [][/\ Highlighted(scene) \subseteq {currentHighlightedMesh}
     /\ Highlighted(scene') \subseteq {currentHighlightedMesh'}
     /\ (PickNothing \/ DropHandler) =>
          Highlighted(scene') = {} /\ currentHighlightedMesh' = Null]_vars

\* after a drop, a pointer event has highlighted one of the two meshes of the model
C30_Witness ==
  /\ last.step = "pointer"
  /\ drops >= 1
  /\ Cardinality(scene.meshes) >= 2
  /\ currentHighlightedMesh # Null
  /\ Highlighted(scene) = {currentHighlightedMesh}

=============================================================================
